---- MODULE Spec2Model ----
(***************************************************************************)
(* Model of airsim_track_control.py: the control loop of main(), the       *)
(* coordinate-to-control mapping coordinates_to_controls() and the         *)
(* hysteresis gate send_controls().                                        *)
(*                                                                         *)
(* Python's float arithmetic is modelled by exact rational arithmetic: a   *)
(* number is a pair <<n, d>> in lowest terms with d > 0.                   *)
(***************************************************************************)
EXTENDS Integers, Sequences, FiniteSets, TLC

(* pc               where main() stands: "frame" before camera.read of an  *)
(*                  iteration, "key" at the exit-key poll that ends it,    *)
(*                  "done" after the break                                 *)
(* detection        what the contour search of the iteration found         *)
(* status_controls  main's dictionary of the last-sent throttle, steering  *)
(* car_controls     the airsim.CarControls object of connect_airsim        *)
(* client           the last command client.setCarControls received        *)
(* n_setCarControls invocations of client.setCarControls in the iteration  *)
(* gate_call        the arguments of the iteration's send_controls call    *)
VARIABLES pc, detection, status_controls, car_controls, client,
          n_setCarControls, gate_call

vars == <<pc, detection, status_controls, car_controls, client,
          n_setCarControls, gate_call>>

----------------------------------------------------------------------------
(* Module-level constants of the script.                                   *)

DIM_X == 640

DIM_Y == 480

THRESHOLD_CONTOUR == 10

FORWARD_RATIO == 2

CONTROL_THROTTLE_THRESHOLD == <<1, 10>>

CONTROL_STEERING_THRESHOLD == <<1, 10>>

----------------------------------------------------------------------------
(* Bounds of the model: the centroids offered by the camera lie on a grid  *)
(* around the frame centre, MaxI columns to each side and MaxJ rows above  *)
(* and below; MaxRatio bounds the forward ratios a comparison ranges over. *)

MaxI == 2

MaxJ == 5

MaxRatio == 3

----------------------------------------------------------------------------
(* Rational arithmetic standing for the float operators the script uses.   *)

Abs(n) == IF n < 0 THEN -n ELSE n

RECURSIVE GCD(_, _)
GCD(a, b) == IF b = 0 THEN a ELSE GCD(b, a % b)

Norm(n, d) ==
    LET s == IF d < 0 THEN -1 ELSE 1
        g == GCD(Abs(n), Abs(d))
    IN  <<(s * n) \div g, (s * d) \div g>>

Rat(n) == <<n, 1>>

Zero == Rat(0)

RNeg(a) == <<-a[1], a[2]>>

RSub(a, b) == Norm(a[1] * b[2] - b[1] * a[2], a[2] * b[2])

RMul(a, b) == Norm(a[1] * b[1], a[2] * b[2])

RDiv(a, b) == Norm(a[1] * b[2], a[2] * b[1])

RAbs(a) == <<Abs(a[1]), a[2]>>

RGt(a, b) == a[1] * b[2] > b[1] * a[2]

RLt(a, b) == a[1] * b[2] < b[1] * a[2]

----------------------------------------------------------------------------
(* What the object locator of one loop iteration can yield.                *)

XS == {DIM_X \div 2 + i * (DIM_X \div 20) : i \in -MaxI..MaxI}

YS == {DIM_Y \div 2 + j * (DIM_Y \div 20) : j \in -MaxJ..MaxJ}

Radii == {THRESHOLD_CONTOUR, THRESHOLD_CONTOUR + 1}

NoFrame == [contours |-> -1]

NoContours == [contours |-> 0]

Detections ==
    {NoContours} \cup
    {[contours |-> 1, x |-> x, y |-> y, radius |-> r] :
        x \in XS, y \in YS, r \in Radii}

NoCommand == [none |-> TRUE]

NoCall == [called |-> FALSE]

----------------------------------------------------------------------------
(* coordinates_to_controls, with the forward ratio as a parameter.         *)

(* Variants of the mapping with a plausible slip each: the frame height   *)
(* used for the horizontal axis, the forward ratio applied in both         *)
(* directions, and the steering computed without the negation.             *)

controls_swapped_dim(ratio, coordinate_x, coordinate_y) ==
    LET throttle == RNeg(RDiv(RSub(Rat(coordinate_y),
                                   RDiv(Rat(DIM_Y), Rat(2))), Rat(DIM_Y)))
        steering == RNeg(RDiv(RSub(Rat(coordinate_x),
                                   RDiv(Rat(DIM_Y), Rat(2))), Rat(DIM_Y)))
    IN  [throttle |-> IF RGt(throttle, Zero)
                      THEN RMul(Rat(ratio), throttle)
                      ELSE throttle,
         steering |-> steering]

controls_ratio_always(ratio, coordinate_x, coordinate_y) ==
    LET throttle == RNeg(RDiv(RSub(Rat(coordinate_y),
                                   RDiv(Rat(DIM_Y), Rat(2))), Rat(DIM_Y)))
        steering == RNeg(RDiv(RSub(Rat(coordinate_x),
                                   RDiv(Rat(DIM_X), Rat(2))), Rat(DIM_X)))
    IN  [throttle |-> RMul(Rat(ratio), throttle),
         steering |-> steering]

controls_steering_scaled(ratio, coordinate_x, coordinate_y) ==
    LET throttle == RNeg(RDiv(RSub(Rat(coordinate_y),
                                   RDiv(Rat(DIM_Y), Rat(2))), Rat(DIM_Y)))
        steering == RNeg(RDiv(RSub(Rat(coordinate_x),
                                   RDiv(Rat(DIM_X), Rat(2))), Rat(DIM_X)))
    IN  [throttle |-> IF RGt(throttle, Zero)
                      THEN RMul(Rat(ratio), throttle)
                      ELSE throttle,
         steering |-> IF RGt(throttle, Zero)
                      THEN RMul(Rat(ratio), steering)
                      ELSE steering]

controls_with_ratio(ratio, coordinate_x, coordinate_y) ==
    LET throttle == RNeg(RDiv(RSub(Rat(coordinate_y),
                                   RDiv(Rat(DIM_Y), Rat(2))), Rat(DIM_Y)))
        steering == RNeg(RDiv(RSub(Rat(coordinate_x),
                                   RDiv(Rat(DIM_X), Rat(2))), Rat(DIM_X)))
    IN  [throttle |-> IF RGt(throttle, Zero)
                      THEN RMul(Rat(ratio), throttle)
                      ELSE throttle,
         steering |-> steering]

coordinates_to_controls(coordinate_x, coordinate_y) ==
    controls_with_ratio(FORWARD_RATIO, coordinate_x, coordinate_y)

----------------------------------------------------------------------------
(* send_controls: the hysteresis gate.                                     *)

(* The throttle test with a non-strict comparison.                         *)

diff_throttle_nonstrict(throttle) ==
    ~ RLt(RAbs(RSub(status_controls.throttle, throttle)),
          CONTROL_THROTTLE_THRESHOLD)

diff_throttle(throttle) ==
    RGt(RAbs(RSub(status_controls.throttle, throttle)),
        CONTROL_THROTTLE_THRESHOLD)

(* The steering test reading the throttle of the last-sent pair.           *)

diff_steering_wrong_key(steering) ==
    RGt(RAbs(RSub(status_controls.throttle, steering)),
        CONTROL_STEERING_THRESHOLD)

diff_steering(steering) ==
    RGt(RAbs(RSub(status_controls.steering, steering)),
        CONTROL_STEERING_THRESHOLD)

(* The gate requiring both axes to exceed their threshold.                 *)

exceeds_both(throttle, steering) ==
    diff_throttle(throttle) /\ diff_steering(steering)

exceeds(throttle, steering) ==
    diff_throttle(throttle) \/ diff_steering(steering)

(* The gear selection without the branch that returns to automatic gear.   *)

set_gear_no_reset(throttle) ==
    IF RLt(throttle, Zero)
    THEN [is_manual_gear |-> TRUE, manual_gear |-> -1]
    ELSE [is_manual_gear |-> car_controls.is_manual_gear,
          manual_gear |-> car_controls.manual_gear]

set_gear(throttle) ==
    IF RLt(throttle, Zero)
    THEN [is_manual_gear |-> TRUE, manual_gear |-> -1]
    ELSE [is_manual_gear |-> FALSE, manual_gear |-> car_controls.manual_gear]

(* The status update that forgets the steering.                            *)

update_status_throttle_only(throttle, steering) ==
    [throttle |-> throttle, steering |-> status_controls.steering]

update_status(throttle, steering) ==
    [throttle |-> throttle, steering |-> steering]

send_controls(throttle, steering) ==
    /\ gate_call' = [called |-> TRUE, throttle |-> throttle,
                     steering |-> steering]
    /\ IF exceeds(throttle, steering)
       THEN /\ car_controls' =
                  [throttle |-> throttle, steering |-> steering,
                   is_manual_gear |-> set_gear(throttle).is_manual_gear,
                   manual_gear |-> set_gear(throttle).manual_gear]
            /\ client' = car_controls'
            /\ n_setCarControls' = 1
            /\ status_controls' = update_status(throttle, steering)
       ELSE /\ n_setCarControls' = 0
            /\ UNCHANGED <<car_controls, client, status_controls>>

----------------------------------------------------------------------------
(* main: initialisation and the loop.                                      *)

Init ==
    /\ pc = "frame"
    /\ detection = NoFrame
    /\ status_controls = [throttle |-> Rat(0), steering |-> Rat(0)]
    /\ car_controls = [throttle |-> Rat(0), steering |-> Rat(0),
                       is_manual_gear |-> FALSE, manual_gear |-> 0]
    /\ client = NoCommand
    /\ n_setCarControls = 0
    /\ gate_call = NoCall

track(d) ==
    IF d.contours > 0
    THEN IF d.radius > THRESHOLD_CONTOUR
         THEN LET c == coordinates_to_controls(d.x, d.y)
              IN  send_controls(c.throttle, c.steering)
         ELSE /\ gate_call' = NoCall
              /\ n_setCarControls' = 0
              /\ UNCHANGED <<car_controls, client, status_controls>>
    ELSE send_controls(Rat(0), Rat(0))

Iterate ==
    /\ pc = "frame"
    /\ \E d \in Detections :
         /\ detection' = d
         /\ track(d)
    /\ pc' = "key"

Sleep ==
    /\ pc = "key"
    /\ pc' = "frame"
    /\ UNCHANGED <<detection, status_controls, car_controls, client,
                   n_setCarControls, gate_call>>

Exit ==
    /\ pc = "key"
    /\ pc' = "done"
    /\ UNCHANGED <<detection, status_controls, car_controls, client,
                   n_setCarControls, gate_call>>

Next == Iterate \/ Sleep \/ Exit

Spec == Init /\ [][Next]_vars

----------------------------------------------------------------------------
(* Vocabulary of the properties, written on numerators and denominators    *)
(* and independent of the operators the model computes with.               *)

Pair(t, s) == [throttle |-> t, steering |-> s]

\* ten times |a - b|, compared with the common denominator: |a - b| ? 1/10
TenDist(a, b) == 10 * Abs(a[1] * b[2] - b[1] * a[2])

FartherThanTenth(a, b) == TenDist(a, b) > a[2] * b[2]

ExactlyTenth(a, b) == TenDist(a, b) = a[2] * b[2]

Negative(a) == a[1] < 0

\* the step is the body of a loop iteration that called send_controls
GateStep == pc = "frame" /\ gate_call'.called

\* the command in effect at the simulator
InEffect ==
    IF client = NoCommand THEN Pair(Zero, Zero)
    ELSE Pair(client.throttle, client.steering)

Significant(d) == d.contours > 0 /\ d.radius > THRESHOLD_CONTOUR

----------------------------------------------------------------------------
\* C1: a call of send_controls invokes client.setCarControls exactly once
\* when the candidate is farther than the threshold from the last-sent pair
\* on the throttle or on the steering axis, and not at all otherwise; the
\* command transmitted carries exactly the candidate's throttle and steering.
C1_SendIffExceeded ==
    [][GateStep =>
        LET t == gate_call'.throttle
            s == gate_call'.steering
        IN  IF \/ FartherThanTenth(status_controls.throttle, t)
               \/ FartherThanTenth(status_controls.steering, s)
            THEN /\ n_setCarControls' = 1
                 /\ client' # NoCommand
                 /\ client'.throttle = t
                 /\ client'.steering = s
            ELSE /\ n_setCarControls' = 0
                 /\ client' = client]_vars

\* a command transmitted on the steering axis alone, after an earlier one
C1_Witness ==
    /\ pc = "key"
    /\ gate_call.called
    /\ n_setCarControls = 1
    /\ client.throttle = Zero
    /\ client.steering = <<-1, 20>>

\* C2: status_controls is always the throttle and steering of the last
\* command delivered through client.setCarControls, (0, 0) before the first
\* one, and a call of send_controls that the hysteresis test suppresses
\* leaves status_controls unchanged.
C2_StatusIsLastDelivered ==
    /\ [](status_controls = InEffect)
    /\ [][(GateStep /\ n_setCarControls' = 0)
            => status_controls' = status_controls]_vars

\* a suppressed call whose candidate is not the last delivered command
C2_Witness ==
    /\ pc = "key"
    /\ client # NoCommand
    /\ gate_call.called
    /\ n_setCarControls = 0
    /\ Pair(gate_call.throttle, gate_call.steering) # status_controls

C4_ReverseGearIffNegative ==
    client # NoCommand =>
        ((client.is_manual_gear /\ client.manual_gear = -1)
            <=> Negative(client.throttle))

\* a forward command delivered after an earlier reverse command
C4_Witness ==
    /\ client # NoCommand
    /\ client.manual_gear = -1
    /\ ~ Negative(client.throttle)
    /\ client.throttle # Zero
    /\ ~ client.is_manual_gear

\* C5: at the end of every loop iteration whose detection is not
\* significant (no contour, or a radius not above THRESHOLD_CONTOUR), the
\* loop has supplied the stop candidate (0, 0) to send_controls.
C5_StopSuppliedWhenNotSignificant ==
    (pc = "key" /\ ~ Significant(detection))
        => (gate_call.called
            /\ Pair(gate_call.throttle, gate_call.steering)
                 = Pair(Zero, Zero))

\* C6: at the end of every loop iteration that found no object, the
\* command in effect at the simulator has throttle 0 and steering 0.
C6_StoppedWhenNoObject ==
    (pc = "key" /\ detection = NoContours)
        => InEffect = Pair(Zero, Zero)

\* C7: coordinates_to_controls(x, y) has steering -(x - DIM_X/2)/DIM_X and
\* throttle r scaled by FORWARD_RATIO when r > 0, r = -(y - DIM_Y/2)/DIM_Y;
\* the frame centre maps to (0, 0) and the centroid (320, 120) to (0.5, 0).
C7_MappingFormula ==
    /\ coordinates_to_controls(DIM_X \div 2, DIM_Y \div 2) = Pair(Zero, Zero)
    /\ coordinates_to_controls(320, 120) = Pair(<<1, 2>>, Zero)
    /\ detection.contours > 0 =>
         LET c == coordinates_to_controls(detection.x, detection.y)
             k == IF 2 * detection.y < DIM_Y THEN FORWARD_RATIO ELSE 1
         IN  /\ c.steering[2] > 0
             /\ c.throttle[2] > 0
             /\ c.steering[1] * 2 * DIM_X
                  = (DIM_X - 2 * detection.x) * c.steering[2]
             /\ c.throttle[1] * 2 * DIM_Y
                  = k * (DIM_Y - 2 * detection.y) * c.throttle[2]

\* the centroid (320, 120) tracked and its command (0.5, 0) transmitted
C7_Witness ==
    /\ pc = "key"
    /\ Significant(detection)
    /\ detection.x = 320
    /\ detection.y = 120
    /\ client = [throttle |-> <<1, 2>>, steering |-> Zero,
                 is_manual_gear |-> FALSE, manual_gear |-> 0]

\* C8: for y1 above the centre and its mirror y2 = DIM_Y - y1, the
\* throttles t1 and t2 of coordinates_to_controls satisfy
\* t1 = -FORWARD_RATIO * t2, with t1 > 0 and t2 < 0.
C8_ForwardAsymmetry ==
    (detection.contours > 0 /\ 2 * detection.y < DIM_Y) =>
        LET t1 == coordinates_to_controls(detection.x, detection.y).throttle
            t2 == coordinates_to_controls(detection.x,
                                          DIM_Y - detection.y).throttle
        IN  /\ t1[2] > 0 /\ t2[2] > 0
            /\ t1[1] * t2[2] = (-FORWARD_RATIO) * t2[1] * t1[2]
            /\ t1[1] > 0
            /\ t2[1] < 0

\* an object tracked above the centre, off the vertical axis
C8_Witness ==
    /\ Significant(detection)
    /\ 2 * detection.y < DIM_Y
    /\ 2 * detection.x # DIM_X
    /\ gate_call.called

\* C9: the steering of coordinates_to_controls(x, DIM_Y/2) is positive for
\* x left of the centre and negative for x right of it, and the steering
\* depends neither on y nor on the forward ratio.
C9_SteeringSign ==
    detection.contours > 0 =>
        LET s == coordinates_to_controls(detection.x, DIM_Y \div 2).steering
        IN  /\ s[2] > 0
            /\ 2 * detection.x < DIM_X => s[1] > 0
            /\ 2 * detection.x > DIM_X => s[1] < 0
            /\ \A y \in YS, ratio \in 1..MaxRatio :
                 controls_with_ratio(ratio, detection.x, y).steering = s

\* an object tracked right of the centre and above it, steering negative
C9_Witness ==
    /\ Significant(detection)
    /\ 2 * detection.x > DIM_X
    /\ 2 * detection.y < DIM_Y
    /\ gate_call.called
    /\ Negative(gate_call.steering)

\* C10: after every call of send_controls, transmitted or suppressed, the
\* last-sent pair is within the threshold of the call's candidate on both
\* the throttle and the steering axis.
C10_BoundedStaleness ==
    gate_call.called =>
        /\ ~ FartherThanTenth(status_controls.throttle, gate_call.throttle)
        /\ ~ FartherThanTenth(status_controls.steering, gate_call.steering)

\* a suppressed call whose candidate lags on the steering axis alone
C10_Witness ==
    /\ pc = "key"
    /\ gate_call.called
    /\ n_setCarControls = 0
    /\ gate_call.throttle = status_controls.throttle
    /\ gate_call.steering # status_controls.steering
    /\ ~ ExactlyTenth(status_controls.steering, gate_call.steering)

====
